---- MODULE Spec2Model ----
(***************************************************************************)
(* foundation/math/scalar.h of appleseed: the scalar math utilities.       *)
(*                                                                         *)
(* Every function of the header is pure.  The state machine below is a     *)
(* caller that invokes one function at a time on inputs drawn from bounded *)
(* sets and records the call and its outcome; log2() is executed one loop  *)
(* iteration per step so that its loop is visible.                         *)
(*                                                                         *)
(* Integers keep their width.  A W-bit integer is the set of the positions *)
(* of its 1 bits (a subset of 0..W-1), two's complement for signed types.  *)
(***************************************************************************)
EXTENDS Integers, FiniteSets, Sequences, TLC

\* fn, ty: the function called and the type it is instantiated with;
\* arg_w: the argument of a call on a fixed-width integer (a word);
\* args: the arguments of a call on numbers;
\* ret_w, ret_b, ret_n: the value returned, a word, a bool or a number;
\* st: "idle" before the call, "running" inside log2(), then "returned",
\*     "asserted" (an assert() failed) or "trapped" (undefined behaviour);
\* loc_x, loc_n: the locals x and n of log2().
VARIABLES fn, ty, arg_w, args, ret_w, ret_b, ret_n, st, loc_x, loc_n

vars == <<fn, ty, arg_w, args, ret_w, ret_b, ret_n, st, loc_x, loc_n>>

(***************************************************************************)
(* Bounds of the exploration.                                              *)
(***************************************************************************)
\* Integer inputs have a leading 1 bit anywhere in the word, every pattern
\* in the TailBits lowest bits, and the bits in between all 0 or all 1.
TailBits == 2

\* Numbers of type int are drawn from -MaxInt .. MaxInt.
MaxInt == 10

(***************************************************************************)
(* Fixed-width integers (foundation/platform/types.h: int32, uint32,       *)
(* int64, uint64).                                                         *)
(***************************************************************************)
IntTypes == {"uint32", "uint64", "int32", "int64"}

Width(t) == IF t \in {"int32", "uint32"} THEN 32 ELSE 64

Signed(t) == t \in {"int32", "int64"}

Bits(t) == 0 .. (Width(t) - 1)

SignBit(t) == Width(t) - 1

SetMax(S) == CHOOSE m \in S : \A o \in S : o <= m

SetMin(S) == CHOOSE m \in S : \A o \in S : m <= o

\* x is negative: a signed word with its sign bit set.
IsNeg(t, x) == Signed(t) /\ SignBit(t) \in x

\* x > 0 and x >= 0, as the type compares with the literal 0.
GtZero(t, x) == x # {} /\ ~IsNeg(t, x)

\* x - 1 in W bits (wrapping).
Dec(t, x) ==
    IF x = {} THEN Bits(t)
    ELSE LET l == SetMin(x) IN (x \ {l}) \cup (0 .. (l - 1))

\* x + 1 in W bits (wrapping).
Inc(t, x) ==
    IF x = Bits(t) THEN {}
    ELSE LET z == SetMin(Bits(t) \ x) IN (x \ (0 .. (z - 1))) \cup {z}

\* x - 1 leaves the range of a signed type exactly at its minimum value,
\* x + 1 exactly at its maximum value.
DecOverflows(t, x) == Signed(t) /\ x = {SignBit(t)}

IncOverflows(t, x) == Signed(t) /\ x = Bits(t) \ {SignBit(t)}

\* x >> s: logical for unsigned types, sign-extending for signed ones.
Shr(t, x, s) ==
    {i - s : i \in {j \in x : j >= s}}
        \cup (IF IsNeg(t, x) THEN {i \in Bits(t) : i >= Width(t) - s} ELSE {})

BitOr(x, y) == x \cup y

BitAnd(x, y) == x \cap y

(***************************************************************************)
(* Power-of-two helpers.                                                   *)
(***************************************************************************)
\* The smear amounts, in the order of the statements.
SmearGeneric == <<16, 8, 4, 2, 1>>

Smear64 == <<32, 16, 8, 4, 2, 1>>

RECURSIVE Smear(_, _, _, _)
Smear(t, x, shifts, i) ==
    IF i > Len(shifts) THEN x
    ELSE Smear(t, BitOr(x, Shr(t, x, shifts[i])), shifts, i + 1)

\* A 64-bit specialisation that stops at the 16-bit smear of the generic code.
SmearOfShort(t) == SmearGeneric

SmearOf(t) == IF Width(t) = 64 THEN Smear64 ELSE SmearGeneric

\* The word x holds before the final "return x + 1".
next_pow2_smeared(t, x) == Smear(t, Dec(t, x), SmearOf(t), 1)

\* next_pow2(x) with the final increment wrapping.
next_pow2(t, x) == Inc(t, next_pow2_smeared(t, x))

\* is_pow2 with zero rejected.
is_pow2_nonzero(t, x) == x # {} /\ BitAnd(x, Dec(t, x)) = {}

\* is_pow2(x) with x - 1 wrapping.
is_pow2(t, x) == BitAnd(x, Dec(t, x)) = {}

(***************************************************************************)
(* Floating-point numbers.  float and double are binary IEEE 754 formats   *)
(* that differ in the size of the significand and of the exponent range.   *)
(* The model computes in a format of the same kind with a MantBits-bit     *)
(* significand and the largest exponent MaxExp: round to nearest, ties to  *)
(* even, gradual underflow, overflow to infinity.  As in float and double, *)
(* the smallest normal value is far below the spacing of the values next   *)
(* to 1.  A finite value is a whole number of units, the unit being the    *)
(* smallest positive (subnormal) value, 2^-FracBits; the representable     *)
(* values are m * 2^j units, 0 <= m < 2^MantBits, 0 <= j <= MaxShift.      *)
(* -0 is identified with +0.                                               *)
(***************************************************************************)
MantBits == 3

MaxExp == 3

FracBits == 2 * MantBits

\* 1.0 is 2^(MantBits-1) * 2^(FracBits-MantBits+1) units.
MaxShift == FracBits - MantBits + 1 + MaxExp

Pow2(e) == 2 ^ e

\* 1.0, in units.
One == Pow2(FracBits)

Half == One \div 2

\* std::numeric_limits<T>::max() and min() (the smallest normal value).
FltMax == (Pow2(MantBits) - 1) * Pow2(MaxShift)

FltMin == Pow2(MantBits - 1)

\* +infinity is the power of two after FltMax; NaN is a value apart.
Inf == Pow2(MantBits) * Pow2(MaxShift)

NaN == Inf + 1

Finite(v) == -Inf < v /\ v < Inf

IsNaN(v) == v = NaN

Floats ==
    {s * m * Pow2(j) : s \in {-1, 1}, m \in 0 .. (Pow2(MantBits) - 1),
                       j \in 0 .. MaxShift}

Abs(i) == IF i < 0 THEN -i ELSE i

Sgn(i) == IF i < 0 THEN -1 ELSE 1

\* The value nearest to n/d units (n >= 0, d > 0), ties to the even
\* significand; Inf when that is beyond FltMax.
RoundPos(n, d) ==
    IF n >= d * Inf THEN Inf
    ELSE LET j == CHOOSE e \in 0 .. MaxShift :
                      /\ n < d * Pow2(MantBits) * Pow2(e)
                      /\ \A f \in 0 .. (e - 1) : n >= d * Pow2(MantBits) * Pow2(f)
             q == d * Pow2(j)
             m == n \div q
             r == n - m * q
             up == 2 * r > q \/ (2 * r = q /\ m % 2 = 1)
         IN (IF up THEN m + 1 ELSE m) * Pow2(j)

\* n/d units (d > 0) rounded to the format.
Round(n, d) == Sgn(n) * RoundPos(Abs(n), d)

\* a + b, a - b, a * b, a / b of the type.
FAdd(a, b) ==
    IF IsNaN(a) \/ IsNaN(b) THEN NaN
    ELSE IF ~Finite(a) /\ ~Finite(b) THEN (IF a = b THEN a ELSE NaN)
    ELSE IF ~Finite(a) THEN a
    ELSE IF ~Finite(b) THEN b
    ELSE Round(a + b, 1)

FNeg(a) == IF IsNaN(a) THEN NaN ELSE -a

FSub(a, b) == FAdd(a, FNeg(b))

FMul(a, b) ==
    IF IsNaN(a) \/ IsNaN(b) THEN NaN
    ELSE IF ~Finite(a) \/ ~Finite(b)
         THEN (IF a = 0 \/ b = 0 THEN NaN ELSE Sgn(a) * Sgn(b) * Inf)
    ELSE Round(a * b, One)

FDiv(a, b) ==
    IF IsNaN(a) \/ IsNaN(b) THEN NaN
    ELSE IF ~Finite(a) THEN (IF ~Finite(b) THEN NaN ELSE Sgn(a) * Sgn(b) * Inf)
    ELSE IF ~Finite(b) THEN 0
    ELSE IF b = 0 THEN (IF a = 0 THEN NaN ELSE Sgn(a) * Inf)
    ELSE Sgn(a) * Sgn(b) * RoundPos(Abs(a) * One, Abs(b))

\* std::abs and the comparisons; every comparison with NaN is false.
FAbs(a) == IF IsNaN(a) THEN NaN ELSE Abs(a)

FLt(a, b) == ~IsNaN(a) /\ ~IsNaN(b) /\ a < b

FGt(a, b) == FLt(b, a)

FLe(a, b) == ~IsNaN(a) /\ ~IsNaN(b) /\ a <= b

FGe(a, b) == FLe(b, a)

(***************************************************************************)
(* Numbers.  "int" is int with the values small enough that no operation   *)
(* of the functions below leaves its range; "float" is the floating-point  *)
(* format above.                                                           *)
(***************************************************************************)
NumTypes == {"int", "float"}

\* T(0.0), T(0.5), T(1.0).
Zero(t) == 0

Unit(t) == IF t = "float" THEN One ELSE 1

Lt(t, a, b) == IF t = "float" THEN FLt(a, b) ELSE a < b

Le(t, a, b) == IF t = "float" THEN FLe(a, b) ELSE a <= b

Gt(t, a, b) == Lt(t, b, a)

Ge(t, a, b) == Le(t, b, a)

\* a / b and a % b of int: the quotient is truncated toward zero.
CDiv(a, b) == Sgn(a) * Sgn(b) * (Abs(a) \div Abs(b))

CRem(a, b) == a - CDiv(a, b) * b

Add(t, a, b) == IF t = "float" THEN FAdd(a, b) ELSE a + b

Sub(t, a, b) == IF t = "float" THEN FSub(a, b) ELSE a - b

Mul(t, a, b) == IF t = "float" THEN FMul(a, b) ELSE a * b

Div(t, a, b) == IF t = "float" THEN FDiv(a, b) ELSE CDiv(a, b)

(***************************************************************************)
(* Clamping, rounding, modulo, interpolation.                              *)
(***************************************************************************)
\* clamp with the two results exchanged.
clamp_swapped(t, x, min, max) ==
    IF Le(t, x, min) THEN max
    ELSE IF Ge(t, x, max) THEN min
    ELSE x

clamp(t, x, min, max) ==
    IF Le(t, x, min) THEN min
    ELSE IF Ge(t, x, max) THEN max
    ELSE x

\* truncate<Int>(x), the portable path: static_cast<Int>(x).
truncate(x) == Sgn(x) * (Abs(x) \div One)

round(x) ==
    truncate(IF FLt(x, 0) THEN FSub(x, Half) ELSE FAdd(x, Half))

\* mod without the sign correction.
mod_rem(a, n) == CRem(a, n)

\* mod<T>(a, n) of the integer types.
mod(a, n) ==
    LET m == CRem(a, n)
    IN IF m < 0 THEN n + m ELSE m

\* linearstep without the upper plateau.
linearstep_open(t, a, b, x) ==
    IF Le(t, x, a) THEN Zero(t)
    ELSE Div(t, Sub(t, x, a), Sub(t, b, a))

linearstep(t, a, b, x) ==
    IF Le(t, x, a) THEN Zero(t)
    ELSE IF Ge(t, x, b) THEN Unit(t)
    ELSE Div(t, Sub(t, x, a), Sub(t, b, a))

\* fit with the two weights exchanged.
fit_swapped(t, x, min_x, max_x, min_y, max_y) ==
    LET k == Div(t, Sub(t, x, min_x), Sub(t, max_x, min_x))
    IN Add(t, Mul(t, min_y, k), Mul(t, max_y, Sub(t, Unit(t), k)))

fit(t, x, min_x, max_x, min_y, max_y) ==
    LET k == Div(t, Sub(t, x, min_x), Sub(t, max_x, min_x))
    IN Add(t, Mul(t, min_y, Sub(t, Unit(t), k)), Mul(t, max_y, k))

(***************************************************************************)
(* Robust floating-point tests.                                            *)
(***************************************************************************)
\* feq as an absolute comparison.
feq_absolute(lhs, rhs, eps) == FLt(FAbs(FSub(lhs, rhs)), eps)

\* feq without the test of rhs against zero.
feq_lhs_zero_only(lhs, rhs, eps) ==
    IF lhs = 0 THEN FLt(FAbs(rhs), eps)
    ELSE /\ FGt(FDiv(lhs, rhs), FSub(One, eps))
         /\ FLt(FDiv(lhs, rhs), FAdd(One, eps))

\* scalar_impl::feq<T>.
feq_impl(lhs, rhs, eps) ==
    IF lhs = 0 THEN FLt(FAbs(rhs), eps)
    ELSE IF rhs = 0 THEN FLt(FAbs(lhs), eps)
    ELSE LET abs_lhs == FAbs(lhs)
             abs_rhs == FAbs(rhs)
         IN IF FLt(abs_rhs, One) /\ FGt(abs_lhs, FMul(abs_rhs, FltMax))
            THEN FALSE
            ELSE IF FGt(abs_rhs, One) /\ FLt(abs_lhs, FMul(abs_rhs, FltMin))
            THEN FALSE
            ELSE /\ FGt(FDiv(lhs, rhs), FSub(One, eps))
                 /\ FLt(FDiv(lhs, rhs), FAdd(One, eps))

\* feq(int, int, int) and feq(float, float, float) / feq(double, ...).
feq(t, lhs, rhs, eps) ==
    IF t = "int" THEN lhs = rhs ELSE feq_impl(lhs, rhs, eps)

(***************************************************************************)
(* Inputs.                                                                 *)
(***************************************************************************)
IntInputs(t) ==
    {{}} \cup
    UNION {
        { {k} \cup (tail \cap (0 .. (k - 1)))
              \cup (IF fill = 1 THEN TailBits .. (k - 1) ELSE {})
          : tail \in SUBSET (0 .. (TailBits - 1)), fill \in {0, 1} }
        : k \in Bits(t) }

\* Numbers of type int: -MaxInt .. MaxInt.
Ints == (-MaxInt) .. MaxInt

\* Floating-point values around which the functions change behaviour: 0, the
\* smallest subnormal and normal values, 1 and its neighbours, 2, the
\* largest value.
Samples ==
    {-FltMax, -One, -1, 0, 1, FltMin, One - Pow2(FracBits - MantBits), One,
     One + Pow2(FracBits - MantBits + 1), 2 * One, FltMax}

\* The tolerances of the approximate tests.
EpsInputs ==
    {-Half, 0, Pow2(FracBits - MantBits), One \div 4,
     One - Pow2(FracBits - MantBits), One, 2 * One, FltMax}

\* The range ends of fit(): 0, 5 and 10 among them.
FitEndsX(t) ==
    IF t = "float" THEN {-One, 0, 5 * One, FltMax} ELSE {-3, 0, 10}

FitEndsY(t) ==
    IF t = "float" THEN {-One, 0, 10 * One} ELSE {-7, 0, 100}

Nums(t) == IF t = "float" THEN Floats ELSE Ints

Ends(t) ==
    IF t = "float" THEN {-FltMax, -One, 0, 1, One, FltMax}
    ELSE {-MaxInt, -1, 0, 3, MaxInt}

\* Signed overflow is undefined behaviour: the build either wraps or traps.
UBOutcomes == {"wrap", "trap"}

(***************************************************************************)
(* The caller.                                                             *)
(***************************************************************************)
Init ==
    /\ fn = "none"
    /\ ty = "none"
    /\ arg_w = {}
    /\ args = <<>>
    /\ ret_w = {}
    /\ ret_b = FALSE
    /\ ret_n = 0
    /\ st = "idle"
    /\ loc_x = {}
    /\ loc_n = 0

\* The caller makes one call per run, from the state after construction.
Ready == st = "idle"

NoRet == ret_w' = {} /\ ret_b' = FALSE /\ ret_n' = 0

\* The call of f<t> on the word w, ending in state s.
WordCall(f, t, w, s) ==
    /\ fn' = f /\ ty' = t /\ arg_w' = w /\ args' = <<>>
    /\ st' = s
    /\ UNCHANGED <<loc_x, loc_n>>

\* The call of f<t> on the numbers a, ending in state s.
NumCall(f, t, a, s) ==
    /\ fn' = f /\ ty' = t /\ arg_w' = {} /\ args' = a
    /\ st' = s
    /\ UNCHANGED <<loc_x, loc_n>>

RetWord(r) == ret_w' = r /\ ret_b' = FALSE /\ ret_n' = 0

RetBool(r) == ret_w' = {} /\ ret_b' = r /\ ret_n' = 0

RetNum(r) == ret_w' = {} /\ ret_b' = FALSE /\ ret_n' = r

CallNextPow2 ==
    /\ Ready
    /\ \E t \in IntTypes : \E x \in IntInputs(t) :
        IF ~GtZero(t, x)
        THEN WordCall("next_pow2", t, x, "asserted") /\ NoRet
        ELSE IF IncOverflows(t, next_pow2_smeared(t, x))
        THEN \E o \in UBOutcomes :
                IF o = "wrap"
                THEN WordCall("next_pow2", t, x, "returned")
                         /\ RetWord(next_pow2(t, x))
                ELSE WordCall("next_pow2", t, x, "trapped") /\ NoRet
        ELSE WordCall("next_pow2", t, x, "returned") /\ RetWord(next_pow2(t, x))

CallIsPow2 ==
    /\ Ready
    /\ \E t \in IntTypes : \E x \in IntInputs(t) :
        IF DecOverflows(t, x)
        THEN \E o \in UBOutcomes :
                IF o = "wrap"
                THEN WordCall("is_pow2", t, x, "returned")
                         /\ RetBool(is_pow2(t, x))
                ELSE WordCall("is_pow2", t, x, "trapped") /\ NoRet
        ELSE WordCall("is_pow2", t, x, "returned") /\ RetBool(is_pow2(t, x))

\* log2(): assert, "T n = 0", then the loop "while (x >>= 1) ++n".
CallLog2 ==
    /\ Ready
    /\ \E t \in IntTypes : \E x \in IntInputs(t) :
        IF ~GtZero(t, x)
        THEN WordCall("log2", t, x, "asserted") /\ NoRet
        ELSE /\ fn' = "log2" /\ ty' = t /\ arg_w' = x /\ args' = <<>>
             /\ st' = "running"
             /\ loc_x' = x
             /\ loc_n' = 0
             /\ NoRet

\* The loop written "do ++n; while (x >>= 1)".
Log2StepCountFirst ==
    /\ st = "running"
    /\ fn = "log2"
    /\ loc_x' = Shr(ty, loc_x, 1)
    /\ loc_n' = loc_n + 1
    /\ IF loc_x' # {}
       THEN UNCHANGED <<st, ret_n>>
       ELSE st' = "returned" /\ ret_n' = loc_n'
    /\ UNCHANGED <<fn, ty, arg_w, args, ret_w, ret_b>>

\* One evaluation of the loop condition, and of the body when it is true.
Log2Step ==
    /\ st = "running"
    /\ fn = "log2"
    /\ loc_x' = Shr(ty, loc_x, 1)
    /\ IF loc_x' # {}
       THEN /\ loc_n' = loc_n + 1
            /\ UNCHANGED <<st, ret_n>>
       ELSE /\ st' = "returned"
            /\ ret_n' = loc_n
            /\ UNCHANGED loc_n
    /\ UNCHANGED <<fn, ty, arg_w, args, ret_w, ret_b>>

CallClamp ==
    /\ Ready
    /\ \E t \in NumTypes : \E x \in Nums(t) : \E min \in Ends(t), max \in Ends(t) :
        IF ~Le(t, min, max)
        THEN NumCall("clamp", t, <<x, min, max>>, "asserted") /\ NoRet
        ELSE NumCall("clamp", t, <<x, min, max>>, "returned")
                 /\ RetNum(clamp(t, x, min, max))

CallRound ==
    /\ Ready
    /\ \E x \in Floats :
        NumCall("round", "float", <<x>>, "returned") /\ RetNum(round(x))

\* a % 0 is undefined behaviour: the division traps, or yields a quotient
\* of 0 and with it the remainder a.
CallMod ==
    /\ Ready
    /\ \E a \in Ints, n \in Ints :
        IF n = 0
        THEN \E o \in UBOutcomes :
                IF o = "wrap"
                THEN NumCall("mod", "int", <<a, n>>, "returned")
                         /\ RetNum(IF a < 0 THEN n + a ELSE a)
                ELSE NumCall("mod", "int", <<a, n>>, "trapped") /\ NoRet
        ELSE NumCall("mod", "int", <<a, n>>, "returned") /\ RetNum(mod(a, n))

CallLinearstep ==
    /\ Ready
    /\ \E a \in Samples, b \in Samples : \E x \in Floats :
        IF ~FLt(a, b)
        THEN NumCall("linearstep", "float", <<a, b, x>>, "asserted") /\ NoRet
        ELSE NumCall("linearstep", "float", <<a, b, x>>, "returned")
                 /\ RetNum(linearstep("float", a, b, x))

CallFit ==
    /\ Ready
    /\ \E t \in NumTypes : \E x \in Nums(t) :
       \E min_x \in FitEndsX(t), max_x \in FitEndsX(t),
          min_y \in FitEndsY(t), max_y \in FitEndsY(t) :
        IF min_x = max_x \/ min_y = max_y
        THEN NumCall("fit", t, <<x, min_x, max_x, min_y, max_y>>, "asserted")
                 /\ NoRet
        ELSE NumCall("fit", t, <<x, min_x, max_x, min_y, max_y>>, "returned")
                 /\ RetNum(fit(t, x, min_x, max_x, min_y, max_y))

CallFeq ==
    /\ Ready
    /\ \E t \in NumTypes : \E lhs \in Nums(t), rhs \in Nums(t) :
       \E eps \in (IF t = "float" THEN EpsInputs ELSE {0, 1}) :
        NumCall("feq", t, <<lhs, rhs, eps>>, "returned")
            /\ RetBool(feq(t, lhs, rhs, eps))

Next ==
    \/ CallNextPow2
    \/ CallIsPow2
    \/ CallLog2
    \/ Log2Step
    \/ CallClamp
    \/ CallRound
    \/ CallMod
    \/ CallLinearstep
    \/ CallFit
    \/ CallFeq

Spec == Init /\ [][Next]_vars

\* A running call keeps running: the loop of log2() is not suspended.
FairSpec == Spec /\ WF_vars(Log2Step)

(***************************************************************************)
(* Mathematical readings of words, used to state the properties.           *)
(***************************************************************************)
\* A non-negative integer of any size is the set of its 1 bits.
LessN(a, b) == a # b /\ SetMax((a \ b) \cup (b \ a)) \in b

LeqN(a, b) == a = b \/ LessN(a, b)

\* 2 * a, not truncated.
Twice(a) == {i + 1 : i \in a}

\* a = 2^k for some k >= 0.
OneBit(a) == Cardinality(a) = 1

\* The largest power of two the type represents.
MaxPow2(t) == IF Signed(t) THEN {Width(t) - 2} ELSE {Width(t) - 1}

Called(f) == fn = f /\ st # "idle"

(***************************************************************************)
(* C1: next_pow2(x), for every x > 0 of the type, is a power of two, is    *)
(* >= x, is x when x is a power of two and is < 2*x otherwise.             *)
(***************************************************************************)
NextPow2Correct ==
    /\ st = "returned"
    /\ ~IsNeg(ty, ret_w)
    /\ OneBit(ret_w)
    /\ is_pow2(ty, ret_w)
    /\ LeqN(arg_w, ret_w)
    /\ (OneBit(arg_w) => ret_w = arg_w)
    /\ (~OneBit(arg_w) => LessN(ret_w, Twice(arg_w)))

Log2Result ==
    (Called("log2") /\ st = "returned") =>
        /\ ret_n >= 0
        /\ LeqN({ret_n}, arg_w)
        /\ LessN(arg_w, {ret_n + 1})
        /\ (arg_w = {0} => ret_n = 0)
        /\ (({ret_n} = arg_w) = OneBit(arg_w))

Log2Terminates ==
    (Called("log2") /\ st = "running") ~> (Called("log2") /\ st = "returned")

C8_Log2 == []Log2Result /\ Log2Terminates

C8_Witness ==
    /\ Called("log2") /\ st = "returned"
    /\ ty = "uint64"
    /\ ~OneBit(arg_w)
    /\ ret_n = 63

(***************************************************************************)
(* C2: mod(a, n), for integers a and n != 0 of either sign, is an r with   *)
(* 0 <= r < n and r congruent to a modulo n; mod(5, 3) = 2 and             *)
(* mod(-1, 3) = 2.                                                         *)
(***************************************************************************)
ModCorrect ==
    /\ st = "returned"
    /\ 0 <= ret_n
    /\ ret_n < args[2]
    /\ CRem(args[1] - ret_n, args[2]) = 0
    /\ (args = <<5, 3>> => ret_n = 2)
    /\ (args = <<-1, 3>> => ret_n = 2)

C4_Clamp ==
    (Called("clamp") /\ args[2] <= args[3]) =>
        LET x == args[1]  min == args[2]  max == args[3]
        IN /\ st = "returned"
           /\ (min <= x /\ x <= max) => ret_n = x
           /\ x < min => ret_n = min
           /\ x > max => ret_n = max
           /\ min <= ret_n /\ ret_n <= max
           /\ clamp(ty, ret_n, min, max) = ret_n

C4_Witness ==
    /\ Called("clamp") /\ st = "returned"
    /\ ty = "float"
    /\ args[2] < args[3]
    /\ args[1] > args[3]
    /\ ret_n = args[3]

(***************************************************************************)
(* C7: round<Int>(x) is the integer nearest to x, the one farther from     *)
(* zero when x is halfway between two integers; round(-x) = -round(x);     *)
(* round(x) is truncate(x + 0.5) for x >= 0 and truncate(x - 0.5) for      *)
(* x < 0.                                                                  *)
(***************************************************************************)
\* The integer nearest to k units, halves away from zero.
NearestAway(k) == Sgn(k) * ((2 * Abs(k) + One) \div (2 * One))

C7_AsStated ==
    Called("round") =>
        /\ st = "returned"
        /\ ret_n = NearestAway(args[1])
        /\ round(-args[1]) = -ret_n
        /\ ret_n = truncate(IF args[1] >= 0 THEN FAdd(args[1], Half)
                                            ELSE FSub(args[1], Half))

(***************************************************************************)
(* C9: for a < b, linearstep(a, b, x) is 0 for x <= a and 1 for x >= b, it *)
(* is non-decreasing in x, and every result lies in [0, 1].                *)
(***************************************************************************)
LinearstepCorrect ==
    LET a == args[1]  b == args[2]  x == args[3]
    IN /\ st = "returned"
       /\ x <= a => ret_n = 0
       /\ x >= b => ret_n = One
       /\ \A x2 \in Floats :
              x <= x2 => FLe(ret_n, linearstep("float", a, b, x2))
       /\ FLe(0, ret_n) /\ FLe(ret_n, One)

RatioAbove(lhs, rhs, v) == Abs(lhs) * One > v * Abs(rhs)

RatioBelow(lhs, rhs, v) == Abs(lhs) * One < v * Abs(rhs)

\* lhs/rhs is strictly inside (1-eps, 1+eps), all three computed in the type.
InWindow(lhs, rhs, eps) ==
    /\ FGt(FDiv(lhs, rhs), FSub(One, eps))
    /\ FLt(FDiv(lhs, rhs), FAdd(One, eps))

FeqConsequences ==
    LET lhs == args[1]  rhs == args[2]  eps == args[3]
    IN /\ (lhs = 0 /\ 0 < rhs /\ rhs < eps) => ret_b
       /\ (lhs = One /\ rhs = 2 * One /\ eps <= Half) => ~ret_b
       /\ (lhs # 0 /\ rhs # 0 /\ Sgn(lhs) # Sgn(rhs) /\ eps <= One) => ~ret_b

C3_AsStatedNormal ==
    (Called("feq") /\ ty = "float") =>
        LET lhs == args[1]  rhs == args[2]  eps == args[3]
        IN ret_b = (IF lhs = 0 THEN Abs(rhs) < eps
                    ELSE IF rhs = 0 THEN Abs(lhs) < eps
                    ELSE IF RatioAbove(lhs, rhs, FltMax)
                            \/ RatioBelow(lhs, rhs, FltMin) THEN FALSE
                    ELSE InWindow(lhs, rhs, eps))

FeqIntExact ==
    ty = "int" =>
        /\ ret_b = (args[1] = args[2])
        /\ ret_b = feq("int", args[2], args[1], args[3])
        /\ \A e \in Ints : ret_b = feq("int", args[1], args[2], e)

\* C10 as stated.
C10_AsStated ==
    Called("feq") =>
        /\ (ty = "float" /\ 0 < args[3] /\ args[3] < One)
              => ret_b = feq("float", args[2], args[1], args[3])
        /\ FeqIntExact

\* C10 amended: the floating test is symmetric when an operand is zero or
\* the operands have opposite signs.
C10_FeqSymmetric ==
    Called("feq") =>
        /\ (ty = "float" /\ 0 < args[3] /\ args[3] < One
                /\ (args[1] = 0 \/ args[2] = 0 \/ Sgn(args[1]) # Sgn(args[2])))
              => ret_b = feq("float", args[2], args[1], args[3])
        /\ FeqIntExact

\* feq(0, r, eps) and feq(r, 0, eps) are both true for a small r # 0.
C10_Witness ==
    /\ Called("feq") /\ st = "returned" /\ ty = "float"
    /\ args[1] = 0 /\ args[2] # 0
    /\ 0 < args[3] /\ args[3] < One
    /\ ret_b
    /\ feq("float", args[2], args[1], args[3])

(***************************************************************************)
(* C6: fit(x, min_x, max_x, min_y, max_y), for every numeric type and      *)
(* min_x # max_x, min_y # max_y, is the affine map that sends min_x to     *)
(* min_y and max_x to max_y; fit(5, 0, 10, 0, 100) = 50 and                *)
(* fit(-5, 0, 10, 0, 100) = -50.                                           *)
(***************************************************************************)
\* r is the value at x of the affine map through (min_x, min_y) and
\* (max_x, max_y).
Affine(r, x, min_x, max_x, min_y, max_y) ==
    r * (max_x - min_x) = min_y * (max_x - min_x) + (x - min_x) * (max_y - min_y)

\* The affine map has a value of type int at x.
AffineIsInt(x, min_x, max_x, min_y, max_y) ==
    CRem((x - min_x) * (max_y - min_y), max_x - min_x) = 0

\* No operation of fit() on floating-point numbers rounds.
FitExact(x, min_x, max_x, min_y, max_y) ==
    LET dx == FSub(x, min_x)
        d == FSub(max_x, min_x)
        k == FDiv(dx, d)
        w == FSub(One, k)
        p == FMul(min_y, w)
        q == FMul(max_y, k)
    IN /\ dx = x - min_x /\ d = max_x - min_x
       /\ Finite(k) /\ k * d = dx * One
       /\ w = One - k
       /\ Finite(p) /\ p * One = min_y * w
       /\ Finite(q) /\ q * One = max_y * k
       /\ Finite(FAdd(p, q)) /\ FAdd(p, q) = p + q

FitFloat ==
    LET x == args[1]  min_x == args[2]  max_x == args[3]
        min_y == args[4]  max_y == args[5]
    IN /\ (x = min_x /\ Finite(FSub(max_x, min_x))) => ret_n = min_y
       /\ (x = max_x /\ Finite(FSub(max_x, min_x))) => ret_n = max_y
       /\ FitExact(x, min_x, max_x, min_y, max_y)
             => Affine(ret_n, x, min_x, max_x, min_y, max_y)

====
